---- MODULE Spec2Model ----
(***************************************************************************)
(* A model of the region quadtree of src/src/quadtree.rs.                  *)
(*                                                                         *)
(* A Coordinate(x, y) is the tuple <<x, y>>; a Rect [min, max] is the      *)
(* tuple <<min, max>>, so bounds[0].0 of the source is bounds[1][1] here.  *)
(* An Option is a sequence: None is <<>> and Some(v) is <<v>>.             *)
(* The value type T is bool, as in the repository's tests.                 *)
(*                                                                         *)
(* A panic is modelled by its outcome: every operation returns the node as *)
(* it stands when the panic is raised together with the panic's message,   *)
(* and "ok" when it returns normally.                                      *)
(***************************************************************************)
EXTENDS Integers, Sequences, FiniteSets, TLC

\* Coordinates of the model lie in MinCoord .. MaxCoord on both axes; the window
\* holds negative coordinates, zero and positive ones.
MaxCoord == 1
MinCoord == 0 - 1
\* Depth of recursion at which the call stack is exhausted.
StackLimit == 6
\* Number of next() calls made on an exhausted iterator.
MaxExtraNext == 2

Coords == MinCoord .. MaxCoord
Coordinates == Coords \X Coords
Rects == {r \in Coordinates \X Coordinates : r[1][1] <= r[2][1] /\ r[1][2] <= r[2][2]}
Values == BOOLEAN
T_default == FALSE

Ok == "ok"
TooFine == "node is too fine to split"
UnwrapNone == "called Option::unwrap() on a None value"
ExplicitPanic == "explicit panic"
StackOverflow == "stack overflow"

None == <<>>
Some(v) == <<v>>

\* The points of a rectangle (both ends inclusive).
PointsOf(rect) == {p \in (rect[1][1] .. rect[2][1]) \X (rect[1][2] .. rect[2][2]) : TRUE}

(***************************************************************************)
(* Nodes                                                                   *)
(***************************************************************************)
LeafNode(bounds, value) == [kind |-> "Leaf", bounds |-> bounds, value |-> value]
QuadNode(bounds, nodes) == [kind |-> "Quad", bounds |-> bounds, nodes |-> nodes]

is_leaf(self) == self.kind = "Leaf"
is_quad(self) == self.kind = "Quad"
get_bounds(self) == self.bounds

contains(self, point) ==
    LET bounds == get_bounds(self)
    IN  /\ bounds[1][1] <= point[1]
        /\ point[1] <= bounds[2][1]
        /\ bounds[1][2] <= point[2]
        /\ point[2] <= bounds[2][2]

\* Index of the first element of nodes that contains point, 0 when there is none
\* (Iterator::find over the children).
find_containing(nodes, point) ==
    IF \E i \in 1..Len(nodes) : contains(nodes[i], point)
    THEN CHOOSE i \in 1..Len(nodes) :
            /\ contains(nodes[i], point)
            /\ \A j \in 1..(i - 1) : ~contains(nodes[j], point)
    ELSE 0

RECURSIVE read_value(_, _)
read_value(self, point) ==
    IF is_leaf(self) THEN Some(self.value)
    ELSE LET i == find_containing(self.nodes, point)
         IN  IF i = 0 THEN None ELSE read_value(self.nodes[i], point)

\* isize division: the quotient is truncated toward zero.
isize_div(a, b) == IF a >= 0 THEN a \div b ELSE 0 - ((0 - a) \div b)

split_rect(bounds, h_mid, v_mid) ==
    LET corners == << bounds[1],
                      <<bounds[2][1], bounds[1][2]>>,
                      <<bounds[1][1], bounds[2][2]>>,
                      bounds[2] >>
        r1 == IF corners[1][1] <= h_mid /\ corners[1][2] <= v_mid
              THEN << << <<bounds[1][1], bounds[1][2]>>, <<h_mid, v_mid>> >> >>
              ELSE << >>
        r2 == IF corners[2][1] > h_mid /\ corners[2][2] <= v_mid
              THEN << << <<h_mid + 1, bounds[1][2]>>, <<bounds[2][1], v_mid>> >> >>
              ELSE << >>
        r3 == IF corners[3][1] <= h_mid /\ corners[3][2] > v_mid
              THEN << << <<bounds[1][1], v_mid + 1>>, <<h_mid, bounds[2][2]>> >> >>
              ELSE << >>
        r4 == IF corners[4][1] > h_mid /\ corners[4][2] > v_mid
              THEN << << <<h_mid + 1, v_mid + 1>>, <<bounds[2][1], bounds[2][2]>> >> >>
              ELSE << >>
    IN  r1 \o r2 \o r3 \o r4

rect_intersection(left, right) ==
    LET max(a, b) == IF a >= b THEN a ELSE b
        min(a, b) == IF a <= b THEN a ELSE b
        x_range == <<max(left[1][1], right[1][1]), min(left[2][1], right[2][1])>>
        y_range == <<max(left[1][2], right[1][2]), min(left[2][2], right[2][2])>>
    IN  IF x_range[1] > x_range[2] THEN None
        ELSE IF y_range[1] > y_range[2] THEN None
        ELSE Some(<< <<x_range[1], y_range[1]>>, <<x_range[2], y_range[2]>> >>)

\* split without its second assertion (the one on the y axis).
split_without_y_assert(self) ==
    IF is_quad(self) THEN [status |-> Ok, node |-> self]
    ELSE IF ~(self.bounds[2][1] - self.bounds[1][1] > 0)
    THEN [status |-> TooFine, node |-> self]
    ELSE LET h_mid == isize_div(self.bounds[2][1] + self.bounds[1][1], 2)
             v_mid == isize_div(self.bounds[2][2] + self.bounds[1][2], 2)
             rects == split_rect(self.bounds, h_mid, v_mid)
             new_nodes == [i \in 1..Len(rects) |-> LeafNode(rects[i], self.value)]
         IN  [status |-> Ok, node |-> QuadNode(self.bounds, new_nodes)]

\* Node::split: [status, node], the node being unchanged when an assertion fails.
split(self) ==
    IF is_quad(self) THEN [status |-> Ok, node |-> self]
    ELSE IF ~(self.bounds[2][1] - self.bounds[1][1] > 0)
    THEN [status |-> TooFine, node |-> self]
    ELSE IF ~(self.bounds[2][2] - self.bounds[1][2] > 0)
    THEN [status |-> TooFine, node |-> self]
    ELSE LET h_mid == isize_div(self.bounds[2][1] + self.bounds[1][1], 2)
             v_mid == isize_div(self.bounds[2][2] + self.bounds[1][2], 2)
             rects == split_rect(self.bounds, h_mid, v_mid)
             new_nodes == [i \in 1..Len(rects) |-> LeafNode(rects[i], self.value)]
         IN  [status |-> Ok, node |-> QuadNode(self.bounds, new_nodes)]

\* Node::consolidate: called only when every child is a Leaf.
consolidate(self) ==
    IF is_leaf(self) THEN self
    ELSE LeafNode(self.bounds, self.nodes[1].value)

\* The test of lines 229-231 and 252-254: every child is a Leaf holding value.
all_leaves_with(self, value) ==
    \A i \in 1..Len(self.nodes) : is_leaf(self.nodes[i]) /\ self.nodes[i].value = value

\* Node::insert_value with `fuel` stack frames left.
RECURSIVE insert_value(_, _, _, _)
insert_value(self, value, point, fuel) ==
    IF fuel = 0 THEN [status |-> StackOverflow, node |-> self]
    ELSE IF point = get_bounds(self)[1] /\ point = get_bounds(self)[2]
    THEN IF is_leaf(self)
         THEN [status |-> Ok, node |-> [self EXCEPT !.value = value]]
         ELSE [status |-> ExplicitPanic, node |-> self]
    ELSE LET s == split(self)
         IN  IF s.status # Ok THEN s
             ELSE LET i == find_containing(s.node.nodes, point)
                  IN  IF i = 0 THEN [status |-> UnwrapNone, node |-> s.node]
                      ELSE LET r == insert_value(s.node.nodes[i], value, point, fuel - 1)
                               q == [s.node EXCEPT !.nodes[i] = r.node]
                           IN  IF r.status # Ok THEN [status |-> r.status, node |-> q]
                               ELSE IF is_leaf(r.node) /\ all_leaves_with(q, value)
                               THEN [status |-> Ok, node |-> consolidate(q)]
                               ELSE [status |-> Ok, node |-> q]

\* Node::insert_value_range with `fuel` stack frames left; range_children is the
\* loop over the children from index i on.
RECURSIVE insert_value_range(_, _, _, _)
RECURSIVE range_children(_, _, _, _, _)
range_children(nodes, i, value, bounds, fuel) ==
    IF i > Len(nodes) THEN [status |-> Ok, nodes |-> nodes]
    ELSE LET intersection == rect_intersection(get_bounds(nodes[i]), bounds)
         IN  IF intersection = None
             THEN range_children(nodes, i + 1, value, bounds, fuel)
             ELSE LET r == insert_value_range(nodes[i], value, intersection[1], fuel - 1)
                      done == [nodes EXCEPT ![i] = r.node]
                  IN  IF r.status # Ok THEN [status |-> r.status, nodes |-> done]
                      ELSE range_children(done, i + 1, value, bounds, fuel)

insert_value_range(self, value, bounds, fuel) ==
    IF fuel = 0 THEN [status |-> StackOverflow, node |-> self]
    ELSE IF get_bounds(self) = bounds
    THEN [status |-> Ok, node |-> LeafNode(bounds, value)]
    ELSE LET s == split(self)
         IN  IF s.status # Ok THEN s
             ELSE LET c == range_children(s.node.nodes, 1, value, bounds, fuel)
                      q == [s.node EXCEPT !.nodes = c.nodes]
                  IN  IF c.status # Ok THEN [status |-> c.status, node |-> q]
                      ELSE IF all_leaves_with(q, value)
                      THEN [status |-> Ok, node |-> consolidate(q)]
                      ELSE [status |-> Ok, node |-> q]

\* Quadtree::get
Quadtree_get(inner, point) == read_value(inner, point)

(***************************************************************************)
(* QuadtreeIter                                                            *)
(***************************************************************************)
\* Quadtree::iter: the cursor starts at the upper left corner.
Quadtree_iter(inner) == [counter |-> get_bounds(inner)[1], finished |-> FALSE]

\* next that keeps the column when it moves to the following row.
QuadtreeIter_next_without_wrap(self, inner) ==
    IF self.finished THEN [iter |-> self, value |-> None]
    ELSE LET value == read_value(inner, self.counter)
             lower_right == get_bounds(inner)[2]
             after == IF self.counter = lower_right
                      THEN [self EXCEPT !.finished = TRUE]
                      ELSE IF self.counter[1] = lower_right[1]
                      THEN [self EXCEPT !.counter = <<self.counter[1], self.counter[2] + 1>>]
                      ELSE [self EXCEPT !.counter = <<self.counter[1] + 1, self.counter[2]>>]
         IN  [iter |-> after, value |-> value]

\* QuadtreeIter::next on the cursor `self` over the root `inner`:
\* the cursor after the call and the item returned.
QuadtreeIter_next(self, inner) ==
    IF self.finished THEN [iter |-> self, value |-> None]
    ELSE LET value == read_value(inner, self.counter)
             upper_left == get_bounds(inner)[1]
             lower_right == get_bounds(inner)[2]
             after == IF self.counter = lower_right
                      THEN [self EXCEPT !.finished = TRUE]
                      ELSE IF self.counter[1] = lower_right[1]
                      THEN [self EXCEPT !.counter = <<upper_left[1], self.counter[2] + 1>>]
                      ELSE [self EXCEPT !.counter = <<self.counter[1] + 1, self.counter[2]>>]
         IN  [iter |-> after, value |-> value]

(***************************************************************************)
(* The state machine                                                       *)
(*   tree      Quadtree.inner, the root node                               *)
(*   status    "ok", or the message of the panic that ended the last call  *)
(*             (a panic ends the run: no call follows it)                  *)
(*   iter      None, or Some(cursor) while a QuadtreeIter borrows the tree *)
(*   returned  what the next() calls on that iterator returned, in order   *)
(***************************************************************************)
VARIABLES tree, status, iter, returned
vars == <<tree, status, iter, returned>>

\* Quadtree::new(upper_left_bound, lower_right_bound)
Quadtree_new(upper_left_bound, lower_right_bound) ==
    LeafNode(<<upper_left_bound, lower_right_bound>>, T_default)

Init ==
    \E bounds \in Rects :
        /\ tree = Quadtree_new(bounds[1], bounds[2])
        /\ status = Ok
        /\ iter = None
        /\ returned = << >>

\* Quadtree::insert(value, point)
Insert(value, point) ==
    /\ status = Ok
    /\ iter = None
    /\ LET r == insert_value(tree, value, point, StackLimit)
       IN  /\ tree' = r.node
           /\ status' = r.status
    /\ UNCHANGED <<iter, returned>>

\* Quadtree::insert_rect(value, rect)
InsertRect(value, rect) ==
    /\ status = Ok
    /\ iter = None
    /\ LET r == insert_value_range(tree, value, rect, StackLimit)
       IN  /\ tree' = r.node
           /\ status' = r.status
    /\ UNCHANGED <<iter, returned>>

\* Quadtree::iter(): the iterator borrows the tree until it is dropped.
Iter ==
    /\ status = Ok
    /\ iter = None
    /\ iter' = Some(Quadtree_iter(tree))
    /\ returned' = << >>
    /\ UNCHANGED <<tree, status>>

\* QuadtreeIter::next()
IterNext ==
    /\ iter # None
    /\ Len(returned) < Cardinality(PointsOf(get_bounds(tree))) + MaxExtraNext
    /\ LET r == QuadtreeIter_next(iter[1], tree)
       IN  /\ iter' = Some(r.iter)
           /\ returned' = Append(returned, r.value)
    /\ UNCHANGED <<tree, status>>

\* The iterator goes out of scope.
IterDrop ==
    /\ iter # None
    /\ iter' = None
    /\ returned' = << >>
    /\ UNCHANGED <<tree, status>>

Next ==
    \/ \E value \in Values, point \in Coordinates : Insert(value, point)
    \/ \E value \in Values, rect \in Rects : InsertRect(value, rect)
    \/ Iter
    \/ IterNext
    \/ IterDrop

Spec == Init /\ [][Next]_vars

(***************************************************************************)
(* Node::split on its own, as the unit tests of mod nodes call it: the     *)
(* node is a Leaf built directly, with any bounds and value.               *)
(***************************************************************************)
InitSplit ==
    \E bounds \in Rects, value \in Values :
        /\ tree = LeafNode(bounds, value)
        /\ status = Ok
        /\ iter = None
        /\ returned = << >>

\* node.split()
Split ==
    /\ status = Ok
    /\ LET r == split(tree)
       IN  /\ tree' = r.node
           /\ status' = r.status
    /\ UNCHANGED <<iter, returned>>

NextSplit == Split

SpecSplit == InitSplit /\ [][NextSplit]_vars

(***************************************************************************)
(* Properties                                                              *)
(***************************************************************************)
Governed == PointsOf(get_bounds(tree))
Width(bounds) == bounds[2][1] - bounds[1][1] + 1
Height(bounds) == bounds[2][2] - bounds[1][2] + 1

\* The k-th coordinate of a rectangle in row-major order, k = 1, 2, ...
RowMajor(bounds, k) ==
    << bounds[1][1] + ((k - 1) % Width(bounds)), bounds[1][2] + ((k - 1) \div Width(bounds)) >>

\* The number of Leaves of a tree whose bounds hold point p.
RECURSIVE LeavesHolding(_, _)
LeavesHolding(node, p) ==
    IF is_leaf(node) THEN (IF contains(node, p) THEN 1 ELSE 0)
    ELSE LET RECURSIVE Sum(_)
             Sum(i) == IF i = 0 THEN 0 ELSE LeavesHolding(node.nodes[i], p) + Sum(i - 1)
         IN  Sum(Len(node.nodes))

\* Every Branch has four children, pairwise disjoint, whose union is its bounds.
RECURSIVE Tiled(_)
Tiled(node) ==
    is_quad(node) =>
        /\ Len(node.nodes) = 4
        /\ \A i, j \in 1..Len(node.nodes) :
              i # j => PointsOf(node.nodes[i].bounds) \cap PointsOf(node.nodes[j].bounds) = {}
        /\ UNION {PointsOf(node.nodes[i].bounds) : i \in 1..Len(node.nodes)}
              = PointsOf(node.bounds)
        /\ \A i \in 1..Len(node.nodes) : Tiled(node.nodes[i])

\* Some Branch has four children that are all Leaves holding mutually equal values.
RECURSIVE HasUniformBranch(_)
HasUniformBranch(node) ==
    /\ is_quad(node)
    /\ \/ /\ Len(node.nodes) = 4
          /\ \A i \in 1..4 : is_leaf(node.nodes[i])
          /\ \A i, j \in 1..4 : node.nodes[i].value = node.nodes[j].value
       \/ \E i \in 1..Len(node.nodes) : HasUniformBranch(node.nodes[i])

\* Every child's bounds are a strict subset of its parent's.
RECURSIVE StrictlyNested(_)
StrictlyNested(node) ==
    is_quad(node) =>
        \A i \in 1..Len(node.nodes) :
            /\ PointsOf(node.nodes[i].bounds) \subseteq PointsOf(node.bounds)
            /\ PointsOf(node.nodes[i].bounds) # PointsOf(node.bounds)
            /\ StrictlyNested(node.nodes[i])

\* C1: insert(V, P) with P inside the governed rectangle, of any width and
\* height, completes; afterwards get(P) is V and get(Q) is what it was for
\* every other point Q of the governed rectangle.
C1_PointWriteLocality ==
    [][\A value \in Values, point \in Coordinates :
          (Insert(value, point) /\ point \in Governed)
              => /\ status' = Ok
                 /\ Quadtree_get(tree', point) = Some(value)
                 /\ \A q \in Governed \ {point} :
                        Quadtree_get(tree', q) = Quadtree_get(tree, q)]_vars

\* C2: insert_rect(V, R) with R inside the governed rectangle, of any width
\* and height, completes; afterwards get(P) is V for every P inside R and
\* get(Q) is what it was for every point Q of the governed rectangle outside R.
C2_RectWrite ==
    [][\A value \in Values, rect \in Rects :
          (InsertRect(value, rect) /\ PointsOf(rect) \subseteq Governed)
              => /\ status' = Ok
                 /\ \A p \in PointsOf(rect) : Quadtree_get(tree', p) = Some(value)
                 /\ \A q \in Governed \ PointsOf(rect) :
                        Quadtree_get(tree', q) = Quadtree_get(tree, q)]_vars

\* C3: after every completed call, whatever the governed rectangle (negative
\* coordinates included), every Branch has exactly four pairwise disjoint
\* children whose union is its bounds, and every point of the governed
\* rectangle lies in exactly one Leaf.
C3_Tiling ==
    status = Ok =>
        /\ Tiled(tree)
        /\ \A p \in Governed : LeavesHolding(tree, p) = 1

\* C4: after every completed insert or insert_rect call (the rectangle may lie
\* partly or wholly outside the governed rectangle) no Branch has four
\* children that are all Leaves holding mutually equal values.
C4_MaximalConsolidation ==
    status = Ok => ~HasUniformBranch(tree)

\* C5: iter() yields exactly width * height items, the k-th being what get
\* returns for the k-th coordinate in row-major order, and every next() after
\* the item of the far corner returns none.
C5_FullGridIteration ==
    iter # None =>
        LET bounds == get_bounds(tree)
            n == Width(bounds) * Height(bounds)
        IN  /\ \A k \in 1..Len(returned) :
                  IF k <= n
                  THEN /\ returned[k] # None
                       /\ returned[k] = Quadtree_get(tree, RowMajor(bounds, k))
                  ELSE returned[k] = None
            /\ iter[1].finished <=> Len(returned) >= n

\* C5 is reached: a full iteration, and a next() after it, over a Branch whose
\* rectangle has several rows and columns and holds both values.
C5_Witness ==
    /\ iter # None
    /\ is_quad(tree)
    /\ Width(get_bounds(tree)) > 1
    /\ Height(get_bounds(tree)) > 1
    /\ Len(returned) > Width(get_bounds(tree)) * Height(get_bounds(tree))
    /\ \E j, k \in 1..Len(returned) :
          returned[j] = Some(TRUE) /\ returned[k] = Some(FALSE)

\* C6: insert_rect(V, R) with R partly or wholly outside the governed rectangle
\* completes; afterwards get(P) is V for every P of R inside the governed
\* rectangle and get(Q) is what it was for every other point Q of it.
C6_Clipping ==
    [][\A value \in Values, rect \in Rects :
          (InsertRect(value, rect) /\ ~(PointsOf(rect) \subseteq Governed))
              => /\ status' = Ok
                 /\ \A p \in Governed :
                        Quadtree_get(tree', p) =
                            IF p \in PointsOf(rect) THEN Some(value)
                            ELSE Quadtree_get(tree, p)]_vars

\* C7: a call that fails, because a degenerate split is reached or because the
\* inserted point lies outside the governed rectangle, leaves the tree exactly
\* as it was before the call.
C7_StrongErrorSafety ==
    [][status' \in {TooFine, UnwrapNone} => tree' = tree]_vars

\* C8: split on a Leaf whose bounds have span 0 on the x axis or on the y axis
\* fails with "node is too fine to split" and leaves the node a Leaf.
C8_DegenerateSplit ==
    [][(/\ Split
        /\ is_leaf(tree)
        /\ \/ tree.bounds[2][1] - tree.bounds[1][1] = 0
           \/ tree.bounds[2][2] - tree.bounds[1][2] = 0)
          => /\ status' = TooFine
             /\ is_leaf(tree')]_vars

\* C8 is reached: split has failed on a Leaf that is a single row of several
\* columns (span 0 on the y axis alone), and the node is still that Leaf.
C8_Witness ==
    /\ status = TooFine
    /\ is_leaf(tree)
    /\ tree.bounds[2][1] - tree.bounds[1][1] > 0
    /\ tree.bounds[2][2] - tree.bounds[1][2] = 0

\* C9: split on a Leaf [(x0,y0),(x1,y1)] with x1 > x0 and y1 > y0 yields a
\* Branch of the same bounds with the four child Leaves top-left, top-right,
\* bottom-left, bottom-right cut at hm = floor((x0+x1)/2), vm = floor((y0+y1)/2),
\* each holding the parent's value.
C9_SplitGeometry ==
    [][(/\ Split
        /\ is_leaf(tree)
        /\ tree.bounds[2][1] > tree.bounds[1][1]
        /\ tree.bounds[2][2] > tree.bounds[1][2])
          => LET x0 == tree.bounds[1][1]
                 y0 == tree.bounds[1][2]
                 x1 == tree.bounds[2][1]
                 y1 == tree.bounds[2][2]
                 hm == (x0 + x1) \div 2
                 vm == (y0 + y1) \div 2
             IN  /\ status' = Ok
                 /\ tree' = QuadNode(tree.bounds,
                       << LeafNode(<< <<x0, y0>>, <<hm, vm>> >>, tree.value),
                          LeafNode(<< <<hm + 1, y0>>, <<x1, vm>> >>, tree.value),
                          LeafNode(<< <<x0, vm + 1>>, <<hm, y1>> >>, tree.value),
                          LeafNode(<< <<hm + 1, vm + 1>>, <<x1, y1>> >>, tree.value) >>)]_vars

\* C10: every call terminates, whatever the governed rectangle (negative
\* coordinates included): no call exhausts the stack, and every child's bounds
\* are a strict subset of its parent's.
C10_Termination ==
    /\ status # StackOverflow
    /\ StrictlyNested(tree)

====
